---- MODULE Spec2Model ----
(***************************************************************************)
(* Ledger & inventory engine of the repair-shop dashboard                  *)
(* (src/database.py, class DatabaseManager).  The worksheets Repairs,      *)
(* Ledger, Inventory, Sales and Customers are sequences of rows; every     *)
(* operation is a read-modify-write of whole worksheets.  Rows carry the   *)
(* columns these operations read or compute; the free-text and timestamp  *)
(* columns they only write (issue, phone_number, created_at, start_date,   *)
(* sale_date, category, import_date, ...) are left out.                    *)
(***************************************************************************)
EXTENDS Integers, Sequences, FiniteSets, TLC

\* ---------------------------------------------------------------- bounds
MaxCalls == 3      \* operations invoked in one run
MaxJobs  == 2      \* repair jobs created in one run
MaxItems == 2      \* inventory items created in one run
MaxTicks == 1      \* midnights that pass in one run
MaxCustomers == 2  \* customers registered in one run
MaxOps == 1  \* store operations started in one faulty run

\* ---------------------------------------------------------------- inputs
ClientNames  == {"Ali"}
Models       == {"X100"}
ItemNames    == {"Fan Belt", "Kit"}
AddStatuses  == {"Pending"}
NewStatuses  == {"In Progress", "Delivered"}
ServiceCosts == {500}
PartsCosts   == {200}
TotalCosts   == {700, 999}
StockQtys    == {0, 3}
EditQtys     == {2}
SellQtys     == {1, 4}
Prices       == {50}
\* an invoice id "INV-<year>-<suffix>" is <<"INV", year, suffix>>, the suffix
\* being the tuple of its characters: a digit is 0..9, the letter A is 10
InvoiceIds   == {<<"INV", 2024, <<0, 0, 1>>>>}
Freights     == {100}
GrandTotals  == {1100}

\* rows of items_df: the DataFrame index label and the five grid columns
Line(i, n, q, r, rq, t) ==
    [idx |-> i, Item_Name |-> n, Qty |-> q, Rate |-> r, Return_Qty |-> rq, Total |-> t]
ItemsDfs == { <<Line(0, " fan belt", 2, 500, 0, 1000)>>,
              <<Line(0, "KIT", 0, 100, 1, 0 - 100), Line(2, "Bolt", 1, 10, 0, 10)>> }

JobIds  == 1..MaxJobs
ItemIds == 1..MaxItems

\* A date (datetime.date) is a record; a date string is the triple of the
\* fields of its text "YYYY-MM-DD".  A missing cell (None / NaN) is <<>>.
NaN == <<>>
Date(y, m, d) == [year |-> y, month |-> m, day |-> d]
FirstDay == Date(2024, 1, 31)

DaysInMonth(y, m) ==
    IF m = 2 THEN (IF y % 4 = 0 /\ (y % 100 # 0 \/ y % 400 = 0) THEN 29 ELSE 28)
    ELSE IF m \in {4, 6, 9, 11} THEN 30 ELSE 31

\* str(date): the text "YYYY-MM-DD"
str_date(d) == <<d.year, d.month, d.day>>

\* datetime.strptime(s, '%Y-%m-%d') succeeds
strptime_ok(s) ==
    /\ Len(s) = 3
    /\ s[1] \in 1..9999
    /\ s[2] \in 1..12
    /\ s[3] \in 1..DaysInMonth(s[1], s[2])

\* datetime.strptime(s, '%Y-%m-%d').date()
strptime(s) == Date(s[1], s[2], s[3])

\* a > b on datetime.date
date_gt(a, b) ==
    \/ a.year > b.year
    \/ a.year = b.year /\ a.month > b.month
    \/ a.year = b.year /\ a.month = b.month /\ a.day > b.day

\* the day after d (the wall clock passing midnight)
next_day(d) ==
    IF d.day < DaysInMonth(d.year, d.month) THEN Date(d.year, d.month, d.day + 1)
    ELSE IF d.month < 12 THEN Date(d.year, d.month + 1, 1)
    ELSE Date(d.year + 1, 1, 1)

\* due dates given to add_repair: none, two real days, a text that is not a
\* calendar day
DueDates == {NaN, <<2024, 1, 31>>, <<2024, 2, 1>>, <<2024, 2, 30>>}

\* parts_list arguments: [{'id': .., 'qty': ..}, ...]
Part(i, q) == [id |-> i, qty |-> q]
PartsLists == { <<>>, <<Part(1, 2), Part(2, 1), Part(1, 2)>> }

\* ---------------------------------------------------------------- state
VARIABLES Repairs, Ledger, Inventory, Sales, Customers, today, ret, ncalls, io

vars == <<Repairs, Ledger, Inventory, Sales, Customers, today, ret, ncalls, io>>

None == <<>>

\* A browser session runs one operation at a time.  While it runs, io[s] holds
\* the operation and its arguments (op), the store calls it still has to make
\* (plan), the retry index of the call in progress (attempt) and the
\* DataFrames it has read (mem); out tells how its last operation ended.
Sessions == {"A", "B"}
NoMem == [Repairs |-> <<>>, Ledger |-> <<>>, Inventory |-> <<>>, Sales |-> <<>>]
Idle(out) == [pc |-> "idle", op |-> <<>>, plan |-> <<>>, attempt |-> 0,
              mem |-> NoMem, out |-> out]

Max(a, b) == IF a >= b THEN a ELSE b

RECURSIVE MaxId(_)
MaxId(df) == IF df = <<>> THEN 0 ELSE Max(df[1].id, MaxId(Tail(df)))

\* DatabaseManager._get_next_id
get_next_id(df) == IF df = <<>> THEN 1 ELSE MaxId(df) + 1

\* df.index[df['id'] == x].tolist(): positions of the rows with that id
IdxOf(df, x) == {i \in 1..Len(df) : df[i].id = x}
Min(S) == CHOOSE m \in S : \A n \in S : m <= n

\* ---------------------------------------------------------------- ledger
\* the amount lands in the wrong column
ledger_row_swapped(df, party_name, description, debit, credit, date_val) ==
    [id |-> get_next_id(df), party_name |-> party_name,
     date |-> str_date(date_val), description |-> description,
     debit |-> credit, credit |-> debit]

ledger_row(df, party_name, description, debit, credit, date_val) ==
    [id |-> get_next_id(df), party_name |-> party_name,
     date |-> str_date(date_val), description |-> description,
     debit |-> debit, credit |-> credit]

add_ledger_entry(df, party_name, description, debit, credit, date_val) ==
    Append(df, ledger_row(df, party_name, description, debit, credit, date_val))

\* ---------------------------------------------------------------- repairs
add_repair(client_name, model, status, due_date) ==
    /\ ncalls < MaxCalls
    /\ Len(Repairs) < MaxJobs
    /\ Repairs' = Append(Repairs,
          [id |-> get_next_id(Repairs), client_name |-> client_name,
           inverter_model |-> model, status |-> status,
           service_cost |-> 0, parts_cost |-> 0, total_cost |-> 0,
           due_date |-> due_date,
           completion_date |-> NaN, is_late |-> 0])
    /\ ret' = None
    /\ ncalls' = ncalls + 1
    /\ UNCHANGED <<Ledger, Inventory, Sales, today, Customers, io>>

\* the comparison is >= instead of >
late_flag_on_due_day(due_date_val, completion_date) ==
    IF due_date_val # NaN /\ strptime_ok(due_date_val)
          /\ ~date_gt(strptime(due_date_val), completion_date)
       THEN 1 ELSE 0

\* lines 274-287 of close_job
late_flag(due_date_val, completion_date) ==
    IF due_date_val # NaN
       THEN IF strptime_ok(due_date_val)
               THEN IF date_gt(completion_date, strptime(due_date_val)) THEN 1 ELSE 0
               ELSE 0
       ELSE 0

\* lines 289-297 of close_job
close_row(row, service_cost, parts_cost, total_cost, completion_date) ==
    [row EXCEPT !.service_cost = service_cost,
                !.parts_cost = parts_cost,
                !.total_cost = total_cost,
                !.status = "Delivered",
                !.is_late = late_flag(row.due_date, completion_date),
                !.completion_date = str_date(completion_date)]

\* the deduction without max(0, ...)
deduct_one_unclamped(inv_df, part) ==
    LET p_idx == IdxOf(inv_df, part.id) IN
    IF p_idx # {}
       THEN [inv_df EXCEPT ![Min(p_idx)].quantity = @ - part.qty]
       ELSE inv_df

\* lines 308-317 of close_job: one pass over parts_list, clamping at zero
deduct_one(inv_df, part) ==
    LET p_idx == IdxOf(inv_df, part.id) IN
    IF p_idx # {}
       THEN [inv_df EXCEPT ![Min(p_idx)].quantity = Max(0, @ - part.qty)]
       ELSE inv_df

RECURSIVE deduct_stock(_, _)
deduct_stock(inv_df, parts_list) ==
    IF parts_list = <<>> THEN inv_df
    ELSE deduct_stock(deduct_one(inv_df, Head(parts_list)), Tail(parts_list))

repair_desc(repair_id, model) == <<"Repair Job #", repair_id, " - ", model>>

close_job(repair_id, service_cost, parts_cost, total_cost, parts_list) ==
    /\ ncalls < MaxCalls
    /\ ncalls' = ncalls + 1
    /\ ret' = None
    /\ UNCHANGED <<Sales, today, Customers, io>>
    /\ LET idx == IdxOf(Repairs, repair_id) IN
       IF Repairs = <<>> \/ idx = {}
          THEN UNCHANGED <<Repairs, Ledger, Inventory>>
          ELSE LET row == Repairs[Min(idx)] IN
               /\ Repairs' = [Repairs EXCEPT ![Min(idx)] =
                      close_row(row, service_cost, parts_cost, total_cost, today)]
               /\ Ledger' = add_ledger_entry(Ledger, row.client_name,
                      repair_desc(repair_id, row.inverter_model), total_cost, 0, today)
               /\ Inventory' = IF Inventory # <<>>
                                  THEN deduct_stock(Inventory, parts_list)
                                  ELSE Inventory

\* lines 332-337 of update_repair_job
update_row(row, service_cost, parts_cost, total_cost, new_status) ==
    [row EXCEPT !.service_cost = service_cost,
                !.parts_cost = parts_cost,
                !.total_cost = total_cost,
                !.status = new_status]

\* lines 325-371 of update_repair_job: the path that does not deliver
save_repair_job(repair_id, service_cost, parts_cost, total_cost, parts_list, new_status) ==
    /\ ncalls < MaxCalls
    /\ ncalls' = ncalls + 1
    /\ ret' = None
    /\ UNCHANGED <<Ledger, Sales, today, Customers, io>>
    /\ LET idx == IdxOf(Repairs, repair_id) IN
       IF Repairs = <<>> \/ idx = {}
          THEN UNCHANGED <<Repairs, Inventory>>
          ELSE /\ Repairs' = [Repairs EXCEPT ![Min(idx)] =
                      update_row(@, service_cost, parts_cost, total_cost, new_status)]
               /\ Inventory' = IF Inventory # <<>> /\ parts_list # <<>>
                                  THEN deduct_stock(Inventory, parts_list)
                                  ELSE Inventory

\* the redirect at lines 322-323 is missing
update_repair_job_no_redirect(repair_id, service_cost, parts_cost, total_cost, parts_list, new_status) ==
    save_repair_job(repair_id, service_cost, parts_cost, total_cost, parts_list, new_status)

update_repair_job(repair_id, service_cost, parts_cost, total_cost, parts_list, new_status) ==
    IF new_status = "Delivered"
       THEN close_job(repair_id, service_cost, parts_cost, total_cost, parts_list)
       ELSE save_repair_job(repair_id, service_cost, parts_cost, total_cost, parts_list,
                            new_status)

\* ---------------------------------------------------------------- inventory
add_inventory_item(name, qty, cost, selling_price) ==
    /\ ncalls < MaxCalls
    /\ Len(Inventory) < MaxItems
    /\ Inventory' = Append(Inventory,
          [id |-> get_next_id(Inventory), item_name |-> name, quantity |-> qty,
           cost_price |-> cost, selling_price |-> selling_price])
    /\ ret' = None
    /\ ncalls' = ncalls + 1
    /\ UNCHANGED <<Repairs, Ledger, Sales, today, Customers, io>>

update_inventory_item(item_id, new_qty, new_cost, new_sell) ==
    /\ ncalls < MaxCalls
    /\ LET idx == IdxOf(Inventory, item_id) IN
       IF Inventory = <<>> \/ idx = {}
          THEN /\ ret' = <<FALSE>>
               /\ UNCHANGED Inventory
          ELSE /\ Inventory' = [Inventory EXCEPT ![Min(idx)] =
                      [@ EXCEPT !.quantity = new_qty,
                                !.cost_price = new_cost,
                                !.selling_price = new_sell]]
               /\ ret' = <<TRUE>>
    /\ ncalls' = ncalls + 1
    /\ UNCHANGED <<Repairs, Ledger, Sales, today, Customers, io>>

\* lines 441-459 of sell_item
sale_row(sales_df, item, item_id, qty_to_sell) ==
    [id |-> get_next_id(sales_df), item_id |-> item_id, item_name |-> item.item_name,
     quantity_sold |-> qty_to_sell, sale_price |-> item.selling_price]

\* the stock check is missing
insufficient_stock_unchecked(current_qty, qty_to_sell) == FALSE

\* line 433 of sell_item
insufficient_stock(current_qty, qty_to_sell) == current_qty < qty_to_sell

sell_item(item_id, qty_to_sell) ==
    /\ ncalls < MaxCalls
    /\ ncalls' = ncalls + 1
    /\ UNCHANGED <<Repairs, Ledger, today, Customers, io>>
    /\ LET idx == IdxOf(Inventory, item_id) IN
       IF Inventory = <<>>
          THEN /\ ret' = <<FALSE, "Inventory empty">>
               /\ UNCHANGED <<Inventory, Sales>>
       ELSE IF idx = {}
          THEN /\ ret' = <<FALSE, "Item not found">>
               /\ UNCHANGED <<Inventory, Sales>>
       ELSE IF insufficient_stock(Inventory[Min(idx)].quantity, qty_to_sell)
          THEN /\ ret' = <<FALSE, "Insufficient stock">>
               /\ UNCHANGED <<Inventory, Sales>>
       ELSE /\ Inventory' = [Inventory EXCEPT ![Min(idx)].quantity = @ - qty_to_sell]
            /\ Sales' = Append(Sales,
                   sale_row(Sales, Inventory[Min(idx)], item_id, qty_to_sell))
            /\ ret' = <<TRUE, "Item sold successfully">>

\* ---------------------------------------------------------------- invoices
\* str.lower() and str.strip() on the item names that occur
lower(s) ==
    CASE s = "Fan Belt" -> "fan belt"
      [] s = "KIT" -> "kit"
      [] s = "Kit" -> "kit"
      [] s = "Bolt" -> "bolt"
      [] s = " fan belt" -> " fan belt"
      [] s = "Ali" -> "ali"
      [] s = "X100" -> "x100"
      [] s = "Repair Job #" -> "repair job #"
      [] s = "Invoice #" -> "invoice #"
      [] s = " (Inc. Freight/Misc)" -> " (inc. freight/misc)"
      [] s = "Sold INVERTER + Charger" -> "sold inverter + charger"
      [] s = "Solar Kit" -> "solar kit"
      [] s = "Misc Wiring" -> "misc wiring"
      [] s = "Kit payment" -> "kit payment"
      [] OTHER -> s

strip(s) ==
    CASE s = " fan belt" -> "fan belt"
      [] OTHER -> s

\* lines 524-534 of record_invoice
invoice_row(start_id, invoice_id, customer_name, line) ==
    [id |-> start_id + line.idx, invoice_id |-> invoice_id,
     customer_name |-> customer_name, item_name |-> line.Item_Name,
     quantity_sold |-> line.Qty, sale_price |-> line.Rate,
     return_quantity |-> line.Return_Qty, total_amount |-> line.Total]

\* the returned quantity is not taken off the sold quantity
invoice_stock_without_returns(inv_df, line) ==
    LET net_change == line.Qty
        match_indices == {i \in 1..Len(inv_df) :
                            lower(inv_df[i].item_name) = lower(strip(line.Item_Name))}
    IN  IF inv_df # <<>> /\ match_indices # {}
           THEN [inv_df EXCEPT ![Min(match_indices)].quantity = @ - net_change]
           ELSE inv_df

\* lines 541-559 of record_invoice, for one line
invoice_stock(inv_df, line) ==
    LET net_change == line.Qty - line.Return_Qty
        match_indices == {i \in 1..Len(inv_df) :
                            lower(inv_df[i].item_name) = lower(strip(line.Item_Name))}
    IN  IF inv_df # <<>> /\ match_indices # {}
           THEN [inv_df EXCEPT ![Min(match_indices)].quantity = @ - net_change]
           ELSE inv_df

RECURSIVE invoice_rows(_, _, _, _)
invoice_rows(start_id, invoice_id, customer_name, items_df) ==
    IF items_df = <<>> THEN <<>>
    ELSE <<invoice_row(start_id, invoice_id, customer_name, Head(items_df))>>
         \o invoice_rows(start_id, invoice_id, customer_name, Tail(items_df))

RECURSIVE invoice_inventory(_, _)
invoice_inventory(inv_df, items_df) ==
    IF items_df = <<>> THEN inv_df
    ELSE invoice_inventory(invoice_stock(inv_df, Head(items_df)), Tail(items_df))

invoice_desc(invoice_id, freight, misc) ==
    IF freight > 0 \/ misc > 0
       THEN <<"Invoice #", invoice_id, " (Inc. Freight/Misc)">>
       ELSE <<"Invoice #", invoice_id>>

\* one debit per line instead of one per invoice
record_invoice_per_line(invoice_id, customer_name, items_df, freight, misc, grand_total) ==
    /\ ncalls < MaxCalls
    /\ Sales' = Sales \o invoice_rows(get_next_id(Sales), invoice_id, customer_name,
                                      items_df)
    /\ Inventory' = invoice_inventory(Inventory, items_df)
    /\ Ledger' = Ledger \o
          [k \in 1..Len(items_df) |->
              [id |-> get_next_id(Ledger) + k - 1, party_name |-> customer_name,
               date |-> str_date(today),
               description |-> invoice_desc(invoice_id, freight, misc),
               debit |-> items_df[k].Total, credit |-> 0]]
    /\ ret' = <<TRUE>>
    /\ ncalls' = ncalls + 1
    /\ UNCHANGED <<Repairs, today, Customers, io>>

record_invoice(invoice_id, customer_name, items_df, freight, misc, grand_total) ==
    /\ ncalls < MaxCalls
    /\ Sales' = Sales \o invoice_rows(get_next_id(Sales), invoice_id, customer_name,
                                      items_df)
    /\ Inventory' = invoice_inventory(Inventory, items_df)
    /\ Ledger' = add_ledger_entry(Ledger, customer_name,
                      invoice_desc(invoice_id, freight, misc), grand_total, 0, today)
    /\ ret' = <<TRUE>>
    /\ ncalls' = ncalls + 1
    /\ UNCHANGED <<Repairs, today, Customers, io>>

\* ---------------------------------------------------------------- clock
RECURSIVE days_after(_, _)
days_after(d, n) == IF n = 0 THEN d ELSE days_after(next_day(d), n - 1)

\* datetime.now() moves to the next day
Tick ==
    /\ today # days_after(FirstDay, MaxTicks)
    /\ today' = next_day(today)
    /\ UNCHANGED <<Repairs, Ledger, Inventory, Sales, Customers, ret, ncalls, io>>

Init ==
    /\ Repairs = <<>>
    /\ Ledger = <<>>
    /\ Inventory = <<>>
    /\ Sales = <<>>
    /\ Customers = <<>>
    /\ today = FirstDay
    /\ ret = None
    /\ ncalls = 0
    /\ io = [s \in Sessions |-> Idle("none")]

AddRepair ==
    \E c \in ClientNames, m \in Models, s \in AddStatuses, d \in DueDates :
        add_repair(c, m, s, d)

CloseJob ==
    \E id \in JobIds, sc \in ServiceCosts, pc \in PartsCosts, tc \in TotalCosts,
       pl \in PartsLists :
        close_job(id, sc, pc, tc, pl)

UpdateRepairJob ==
    \E id \in JobIds, sc \in ServiceCosts, pc \in PartsCosts, tc \in TotalCosts,
       pl \in PartsLists, st \in NewStatuses :
        update_repair_job(id, sc, pc, tc, pl, st)

AddInventoryItem ==
    \E n \in ItemNames, q \in StockQtys, p \in Prices :
        add_inventory_item(n, q, p, p)

UpdateInventoryItem ==
    \E id \in ItemIds, q \in EditQtys, p \in Prices :
        update_inventory_item(id, q, p, p)

SellItem ==
    \E id \in ItemIds, q \in SellQtys : sell_item(id, q)

RecordInvoice ==
    \E inv \in InvoiceIds, c \in ClientNames, items \in ItemsDfs, f \in Freights,
       g \in GrandTotals :
        record_invoice(inv, c, items, f, 0, g)

Next ==
    \/ AddRepair
    \/ CloseJob
    \/ UpdateRepairJob
    \/ AddInventoryItem
    \/ UpdateInventoryItem
    \/ SellItem
    \/ RecordInvoice
    \/ Tick

Spec == Init /\ [][Next]_vars

\* ---------------------------------------------------------------- invoice numbers
\* str.isdigit() of every character, as int() needs
is_numeric(suffix) ==
    /\ suffix # <<>>
    /\ \A k \in 1..Len(suffix) : suffix[k] \in 0..9

\* int(x.split('-')[-1]) on a numeric suffix
RECURSIVE int(_)
int(suffix) ==
    IF Len(suffix) = 1 THEN suffix[1]
    ELSE 10 * int(SubSeq(suffix, 1, Len(suffix) - 1)) + suffix[Len(suffix)]

RECURSIVE digits(_)
digits(n) == IF n < 10 THEN <<n>> ELSE digits(n \div 10) \o <<n % 10>>

\* f"{n:03d}"
format_03d(n) ==
    LET d == digits(n) IN
    IF Len(d) >= 3 THEN d
    ELSE IF Len(d) = 2 THEN <<0>> \o d
    ELSE <<0, 0>> \o d

\* df['invoice_id'].dropna(): the invoice ids of the rows that have one
invoice_ids(df) ==
    {df[i].invoice_id : i \in {j \in 1..Len(df) : "invoice_id" \in DOMAIN df[j]}}

SetMax(S) == CHOOSE m \in S : \A n \in S : n <= m

\* the filter on the year prefix is missing
get_next_invoice_number_any_year(df, now) ==
    LET invoices == invoice_ids(df) IN
    IF invoices = {} THEN <<"INV", now.year, format_03d(1)>>
    ELSE IF \E x \in invoices : ~is_numeric(x[3])
       THEN <<"INV", now.year, format_03d(1)>>
    ELSE <<"INV", now.year, format_03d(SetMax({int(x[3]) : x \in invoices}) + 1)>>

get_next_invoice_number(df, now) ==
    LET invoices == invoice_ids(df)
        current_year_invs == {x \in invoices : x[1] = "INV" /\ x[2] = now.year}
    IN  IF df = <<>> \/ invoices = {} THEN <<"INV", now.year, format_03d(1)>>
        ELSE IF current_year_invs = {} THEN <<"INV", now.year, format_03d(1)>>
        ELSE IF \E x \in current_year_invs : ~is_numeric(x[3])
           THEN <<"INV", now.year, format_03d(1)>>
        ELSE <<"INV", now.year,
               format_03d(SetMax({int(x[3]) : x \in current_year_invs}) + 1)>>

\* the comparison looks at the year only
get_invoice_items_of_year(sales_df, invoice_id) ==
    SelectSeq(sales_df, LAMBDA r : "invoice_id" \in DOMAIN r /\ r.invoice_id[2] = invoice_id[2])

get_invoice_items(sales_df, invoice_id) ==
    IF sales_df = <<>> THEN <<>>
    ELSE SelectSeq(sales_df,
                   LAMBDA r : "invoice_id" \in DOMAIN r /\ r.invoice_id = invoice_id)

\* ---------------------------------------------------------------- the sales desk
\* Invoices recorded under ids of this year and of last year, one of them with
\* a suffix that is not a number, next to counter sales and stock intake.
SaleInvoiceIds == { <<"INV", 2024, <<0, 0, 7>>>>, <<"INV", 2023, <<0, 0, 9>>>>,
                    <<"INV", 2024, <<10, 0, 1>>>> }

RecordInvoiceAs ==
    \E inv \in SaleInvoiceIds, c \in ClientNames, items \in ItemsDfs, f \in Freights,
       g \in GrandTotals :
        record_invoice(inv, c, items, f, 0, g)

\* the invoice form: the number is fetched, then the invoice is recorded
RecordNextInvoice ==
    \E c \in ClientNames, items \in ItemsDfs, f \in Freights, g \in GrandTotals :
        record_invoice(get_next_invoice_number(Sales, today), c, items, f, 0, g)

NextSales ==
    \/ AddInventoryItem
    \/ SellItem
    \/ RecordInvoiceAs
    \/ RecordNextInvoice

SpecSales == Init /\ [][NextSales]_vars

\* ---------------------------------------------------------------- customers
CustomerNames   == {"Ali", "ali"}
OpeningBalances == {5000, 0 - 300}

\* add_customer; the id "C007" is <<"C", 7>>
add_customer(name, opening_balance) ==
    /\ ncalls < MaxCalls
    /\ Len(Customers) < MaxCustomers
    /\ LET next_num == IF Customers # <<>>
                          THEN SetMax({Customers[i].customer_id[2] :
                                          i \in 1..Len(Customers)}) + 1
                          ELSE 1
           new_cust_id == <<"C", next_num>>
       IN  /\ Customers' = Append(Customers,
                  [customer_id |-> new_cust_id, name |-> name,
                   opening_balance |-> opening_balance])
           /\ ret' = <<new_cust_id>>
    /\ ncalls' = ncalls + 1
    /\ UNCHANGED <<Repairs, Ledger, Inventory, Sales, today, io>>

\* ---------------------------------------------------------------- ledger view
\* the "Add Transaction" form: description, debit, credit
Entry(d, debit, credit) == [description |-> <<d>>, debit |-> debit, credit |-> credit]
EntryInputs == { Entry("Sold INVERTER + Charger", 2000, 0), Entry("Solar Kit", 500, 0),
                 Entry("Misc Wiring", 200, 0), Entry("Kit payment", 0, 3000) }
BackDate == Date(2024, 1, 15)

delete_ledger_entry(entry_id) ==
    /\ ncalls < MaxCalls
    /\ IF Ledger # <<>>
          THEN Ledger' = SelectSeq(Ledger, LAMBDA r : r.id # entry_id)
          ELSE UNCHANGED Ledger
    /\ ret' = None
    /\ ncalls' = ncalls + 1
    /\ UNCHANGED <<Repairs, Inventory, Sales, Customers, today, io>>

\* party_ledger[['id', 'date', 'description', 'debit', 'credit']]
view_row(r) ==
    [id |-> r.id, date |-> r.date, description |-> r.description,
     debit |-> r.debit, credit |-> r.credit]

RECURSIVE view_rows(_)
view_rows(df) ==
    IF df = <<>> THEN <<>> ELSE <<view_row(Head(df))>> \o view_rows(Tail(df))

\* lines 676-688 of get_ledger_entries
opening_bal(cust_df, party_name) ==
    LET matches == {i \in 1..Len(cust_df) : lower(cust_df[i].name) = lower(party_name)}
    IN  IF cust_df # <<>> /\ matches # {}
           THEN cust_df[Min(matches)].opening_balance
           ELSE 0

abs(x) == IF x < 0 THEN 0 - x ELSE x

\* a negative opening balance keeps its sign in the credit column
op_row_signed(opening) ==
    [date |-> "Old Khata", description |-> <<"Opening Balance (B/F)">>,
     debit |-> IF opening > 0 THEN opening ELSE 0,
     credit |-> IF opening < 0 THEN opening ELSE 0]

\* lines 691-702 of get_ledger_entries
op_row(opening) ==
    [date |-> "Old Khata", description |-> <<"Opening Balance (B/F)">>,
     debit |-> IF opening > 0 THEN opening ELSE 0,
     credit |-> IF opening < 0 THEN abs(opening) ELSE 0]

get_ledger_entries(df, cust_df, party_name) ==
    LET party_ledger == IF df # <<>>
                           THEN view_rows(SelectSeq(df, LAMBDA r : r.party_name = party_name))
                           ELSE <<>>
        opening == opening_bal(cust_df, party_name)
    IN  IF opening # 0 THEN <<op_row(opening)>> \o party_ledger ELSE party_ledger

\* ledger_df['debit'].cumsum() - ledger_df['credit'].cumsum()
RECURSIVE cumsum(_)
cumsum(xs) ==
    IF xs = <<>> THEN <<>>
    ELSE LET front == cumsum(SubSeq(xs, 1, Len(xs) - 1)) IN
         Append(front, (IF front = <<>> THEN 0 ELSE front[Len(front)]) + xs[Len(xs)])

Balance(ledger_df) ==
    LET d == cumsum([i \in 1..Len(ledger_df) |-> ledger_df[i].debit])
        c == cumsum([i \in 1..Len(ledger_df) |-> ledger_df[i].credit])
    IN  [i \in 1..Len(ledger_df) |-> d[i] - c[i]]

\* ---------------------------------------------------------------- reports
RECURSIVE sum(_)
sum(xs) == IF xs = <<>> THEN 0 ELSE Head(xs) + sum(Tail(xs))

\* cust_ledger[cust_ledger[col] > 0][col].sum()
total_of(cust_ledger, col) ==
    sum([i \in 1..Len(cust_ledger) |->
            IF cust_ledger[i][col] > 0 THEN cust_ledger[i][col] ELSE 0])

\* the opening balance is left out
net_without_opening(total_sales, total_paid, c_open) == total_sales - total_paid

\* net = total_sales - total_paid + c_open
net(total_sales, total_paid, c_open) == total_sales - total_paid + c_open

\* one row of get_customer_balances
balance_row(cust, ledger) ==
    LET cust_ledger == SelectSeq(ledger, LAMBDA r : r.party_name = cust.name)
        total_sales == IF ledger # <<>> THEN total_of(cust_ledger, "debit") ELSE 0
        total_paid  == IF ledger # <<>> THEN total_of(cust_ledger, "credit") ELSE 0
    IN  [customer_id |-> cust.customer_id, name |-> cust.name,
         total_sales |-> total_sales, total_paid |-> total_paid,
         opening_balance |-> cust.opening_balance,
         net_outstanding |-> IF ledger # <<>>
                                THEN net(total_sales, total_paid, cust.opening_balance)
                                ELSE cust.opening_balance]

get_customer_balances(customers, ledger) ==
    [i \in 1..Len(customers) |-> balance_row(customers[i], ledger)]

\* the substrings "inverter", "charger", "kit" of the texts that occur
words_in(text) ==
    CASE text = "sold inverter + charger" -> {"inverter", "charger"}
      [] text = "solar kit" -> {"kit"}
      [] text = "kit payment" -> {"kit"}
      [] OTHER -> {}

\* the pieces of a description that are text; a job id and an invoice id hold
\* none of the keywords
description_texts(description) ==
    IF description[1] = "Repair Job #" THEN {description[1], description[3], description[4]}
    ELSE IF description[1] = "Invoice #"
       THEN {description[1]} \cup (IF Len(description) = 3 THEN {description[3]} ELSE {})
    ELSE {description[k] : k \in 1..Len(description)}

\* the description is not lowered before the test
in_desc_case_sensitive(keyword, description) ==
    \E t \in description_texts(description) : keyword \in words_in(t)

\* keyword in str(row['description']).lower()
in_desc(keyword, description) ==
    \E t \in description_texts(description) : keyword \in words_in(lower(t))

\* lines 1051-1077 of get_customer_recovery_list: the four counters
count_rows(sales_txns, keyword) ==
    Cardinality({i \in 1..Len(sales_txns) : in_desc(keyword, sales_txns[i].description)})

count_other(sales_txns) ==
    Cardinality({i \in 1..Len(sales_txns) :
                    /\ ~in_desc("inverter", sales_txns[i].description)
                    /\ ~in_desc("charger", sales_txns[i].description)
                    /\ ~in_desc("kit", sales_txns[i].description)})

\* one row of get_customer_recovery_list
recovery_row(cust, ledger) ==
    LET cust_ledger == SelectSeq(ledger, LAMBDA r : r.party_name = cust.name)
        sales_txns  == SelectSeq(cust_ledger, LAMBDA r : r.debit > 0)
        b == balance_row(cust, ledger)
    IN  [customer_id |-> b.customer_id, name |-> b.name,
         total_sales |-> b.total_sales, total_paid |-> b.total_paid,
         opening_balance |-> b.opening_balance, net_outstanding |-> b.net_outstanding,
         inverter_count |-> count_rows(sales_txns, "inverter"),
         charger_count |-> count_rows(sales_txns, "charger"),
         kit_count |-> count_rows(sales_txns, "kit"),
         other_count |-> count_other(sales_txns)]

\* df.sort_values(by='net_outstanding', ascending=False): rows of equal
\* net_outstanding keep their order
insert_row(sorted, row) ==
    LET before == {i \in 1..Len(sorted) : sorted[i].net_outstanding >= row.net_outstanding}
        n == Cardinality(before)
    IN  SubSeq(sorted, 1, n) \o <<row>> \o SubSeq(sorted, n + 1, Len(sorted))

RECURSIVE sort_values(_)
sort_values(df) ==
    IF df = <<>> THEN <<>>
    ELSE insert_row(sort_values(SubSeq(df, 1, Len(df) - 1)), df[Len(df)])

get_customer_recovery_list(customers, ledger) ==
    sort_values([i \in 1..Len(customers) |-> recovery_row(customers[i], ledger)])

\* ---------------------------------------------------------------- the ledger desk
\* Customers are registered, transactions are entered (also back-dated) and
\* deleted by hand, jobs are closed and invoices recorded.
AddCustomer ==
    \E n \in CustomerNames, b \in OpeningBalances : add_customer(n, b)

AddLedgerEntry ==
    \E p \in CustomerNames, e \in EntryInputs, d \in {today, BackDate} :
        /\ ncalls < MaxCalls
        /\ Ledger' = add_ledger_entry(Ledger, p, e.description, e.debit, e.credit, d)
        /\ ret' = None
        /\ ncalls' = ncalls + 1
        /\ UNCHANGED <<Repairs, Inventory, Sales, Customers, today, io>>

DeleteLedgerEntry ==
    \E id \in 1..MaxCalls : delete_ledger_entry(id)

AddRepairFor ==
    \E c \in CustomerNames : add_repair(c, "X100", "Pending", NaN)

CloseJobPlain ==
    \E id \in JobIds : close_job(id, 500, 200, 700, <<>>)

RecordInvoiceFor ==
    \E c \in CustomerNames :
        record_invoice(get_next_invoice_number(Sales, today), c,
                       <<Line(0, "Bolt", 1, 10, 0, 10)>>, 0, 0, 10)

NextLedger ==
    \/ AddCustomer
    \/ AddLedgerEntry
    \/ DeleteLedgerEntry
    \/ AddRepairFor
    \/ CloseJobPlain
    \/ RecordInvoiceFor

SpecLedger == Init /\ [][NextLedger]_vars

\* ---------------------------------------------------------------- the directory
\* the history of the customer goes with the directory row
delete_customer_with_history(customer_id) ==
    /\ ncalls < MaxCalls
    /\ Customers' = SelectSeq(Customers, LAMBDA r : r.customer_id # customer_id)
    /\ Ledger' = SelectSeq(Ledger, LAMBDA e :
                    \A i \in 1..Len(Customers) :
                        Customers[i].customer_id = customer_id =>
                           Customers[i].name # e.party_name)
    /\ ret' = None
    /\ ncalls' = ncalls + 1
    /\ UNCHANGED <<Repairs, Inventory, Sales, today, io>>

delete_customer(customer_id) ==
    /\ ncalls < MaxCalls
    /\ IF Customers # <<>>
          THEN Customers' = SelectSeq(Customers, LAMBDA r : r.customer_id # customer_id)
          ELSE UNCHANGED Customers
    /\ ret' = None
    /\ ncalls' = ncalls + 1
    /\ UNCHANGED <<Repairs, Ledger, Inventory, Sales, today, io>>

\* the place of a name in sorted(): upper case sorts before lower case
name_rank(name) ==
    CASE name = "Ali" -> 1
      [] name = "ali" -> 2
      [] OTHER -> 3

\* sorted(list(parties))
RECURSIVE sorted(_)
sorted(parties) ==
    IF parties = {} THEN <<>>
    ELSE LET first == CHOOSE n \in parties :
                         \A m \in parties : name_rank(n) <= name_rank(m)
         IN  <<first>> \o sorted(parties \ {first})

get_all_ledger_parties(ledger, repairs, customers) ==
    sorted({ledger[i].party_name : i \in 1..Len(ledger)}
           \cup {repairs[i].client_name : i \in 1..Len(repairs)}
           \cup {customers[i].name : i \in 1..Len(customers)})

CustomerIds == {<<"C", n>> : n \in 1..MaxCustomers}

DeleteCustomer ==
    \E id \in CustomerIds : delete_customer(id)

NextDirectory ==
    \/ AddCustomer
    \/ DeleteCustomer
    \/ AddLedgerEntry
    \/ AddRepairFor

SpecDirectory == Init /\ [][NextDirectory]_vars

\* ---------------------------------------------------------------- the invoice form
\* the "Save & Print" button of the Quick Invoice page
FormCustomers == {"", "Ali"}
FormFreights  == {100}
FormGrids == ItemsDfs \cup { <<Line(0, "", 1, 0, 0, 0)>> }

\* df_display['Total'].sum()
subtotal(df_display) == sum([i \in 1..Len(df_display) |-> df_display[i].Total])

\* the customer name is not looked at
save_and_print_any_customer(customer_name, df_display, freight, misc) ==
    LET grand_total == subtotal(df_display) + freight + misc
        valid_items == SelectSeq(df_display, LAMBDA l : strip(l.Item_Name) # "")
        next_inv == get_next_invoice_number(Sales, today)
    IN  IF grand_total >= 0
           THEN IF valid_items = <<>>
                   THEN /\ ncalls < MaxCalls
                        /\ ret' = <<FALSE, "Please add at least one item.">>
                        /\ ncalls' = ncalls + 1
                        /\ UNCHANGED <<Repairs, Ledger, Inventory, Sales, Customers, today, io>>
                   ELSE record_invoice(next_inv, customer_name, valid_items, freight,
                                       misc, grand_total)
           ELSE /\ ncalls < MaxCalls
                /\ ret' = <<FALSE, "Invalid Customer or Total.">>
                /\ ncalls' = ncalls + 1
                /\ UNCHANGED <<Repairs, Ledger, Inventory, Sales, Customers, today, io>>

save_and_print(customer_name, df_display, freight, misc) ==
    LET grand_total == subtotal(df_display) + freight + misc
        valid_items == SelectSeq(df_display, LAMBDA l : strip(l.Item_Name) # "")
        next_inv == get_next_invoice_number(Sales, today)
    IN  IF customer_name # "" /\ grand_total >= 0
           THEN IF valid_items = <<>>
                   THEN /\ ncalls < MaxCalls
                        /\ ret' = <<FALSE, "Please add at least one item.">>
                        /\ ncalls' = ncalls + 1
                        /\ UNCHANGED <<Repairs, Ledger, Inventory, Sales, Customers, today, io>>
                   ELSE record_invoice(next_inv, customer_name, valid_items, freight,
                                       misc, grand_total)
           ELSE /\ ncalls < MaxCalls
                /\ ret' = <<FALSE, "Invalid Customer or Total.">>
                /\ ncalls' = ncalls + 1
                /\ UNCHANGED <<Repairs, Ledger, Inventory, Sales, Customers, today, io>>

SaveAndPrint ==
    \E c \in FormCustomers, grid \in FormGrids, f \in FormFreights :
        save_and_print(c, grid, f, 0)

NextForm ==
    \/ AddInventoryItem
    \/ SaveAndPrint

SpecForm == Init /\ [][NextForm]_vars

\* ---------------------------------------------------------------- job queries
\* created_at is the wall-clock second at which add_repair appended the row;
\* rows are only ever appended, with growing ids, so the id of a row orders
\* the rows as created_at does
created_at(row) == row.id

\* df.sort_values(by='created_at', ascending=False)
RECURSIVE newest_first(_)
newest_first(df) ==
    IF df = <<>> THEN <<>>
    ELSE LET k == CHOOSE i \in 1..Len(df) :
                     \A j \in 1..Len(df) : created_at(df[j]) <= created_at(df[i])
         IN  <<df[k]>> \o newest_first(SubSeq(df, 1, k - 1) \o SubSeq(df, k + 1, Len(df)))

get_all_repairs(df) == IF df = <<>> THEN <<>> ELSE newest_first(df)

get_active_repairs(df) ==
    SelectSeq(get_all_repairs(df), LAMBDA r : r.status # "Delivered")

\* ---------------------------------------------------------------- store calls
\* Every operation is a sequence of _read_data and _write_data calls on
\* whole worksheets.  Here they are taken one call, and one retry, at a time.
max_read_retries  == 3
max_write_retries == 5

ReadResponses  == {"ok", "429", "error"}
WriteResponses == {"ok", "429", "WorksheetNotFound", "create failed", "error"}

OpAddLedgerEntry(party_name, description, debit, credit) ==
    [name |-> "add_ledger_entry", party_name |-> party_name,
     description |-> description, debit |-> debit, credit |-> credit]
OpCloseJob(repair_id, service_cost, parts_cost, total_cost, parts_list) ==
    [name |-> "close_job", repair_id |-> repair_id, service_cost |-> service_cost,
     parts_cost |-> parts_cost, total_cost |-> total_cost, parts_list |-> parts_list]
OpRecordInvoice(invoice_id, customer_name, items_df, freight, misc, grand_total) ==
    [name |-> "record_invoice", invoice_id |-> invoice_id,
     customer_name |-> customer_name, items_df |-> items_df, freight |-> freight,
     misc |-> misc, grand_total |-> grand_total]

\* the ledger entry is posted before anything else is written
plan_ledger_first(op) ==
    CASE op.name = "add_ledger_entry" ->
            << <<"read", "Ledger">>, <<"write", "Ledger">> >>
      [] op.name = "close_job" ->
            << <<"read", "Repairs">>, <<"read", "Ledger">>, <<"write", "Ledger">>,
               <<"write", "Repairs">>,
               <<"read", "Inventory">>, <<"write", "Inventory">> >>
      [] op.name = "record_invoice" ->
            << <<"read", "Sales">>, <<"read", "Inventory">>,
               <<"read", "Ledger">>, <<"write", "Ledger">>,
               <<"write", "Sales">>, <<"write", "Inventory">> >>

\* the store calls of an operation, in the order of its code
plan(op) ==
    CASE op.name = "add_ledger_entry" ->
            << <<"read", "Ledger">>, <<"write", "Ledger">> >>
      [] op.name = "close_job" ->
            << <<"read", "Repairs">>, <<"write", "Repairs">>,
               <<"read", "Ledger">>, <<"write", "Ledger">>,
               <<"read", "Inventory">>, <<"write", "Inventory">> >>
      [] op.name = "record_invoice" ->
            << <<"read", "Sales">>, <<"read", "Inventory">>,
               <<"write", "Sales">>, <<"write", "Inventory">>,
               <<"read", "Ledger">>, <<"write", "Ledger">> >>

\* the worksheet as the backend holds it
sheet(name) ==
    CASE name = "Repairs" -> Repairs
      [] name = "Ledger" -> Ledger
      [] name = "Inventory" -> Inventory
      [] name = "Sales" -> Sales

\* the operation changes the worksheet as it is at the time of the write
frame_isolated(op, name, mem) ==
    CASE op.name = "add_ledger_entry" ->
            add_ledger_entry(Ledger, op.party_name, op.description, op.debit,
                             op.credit, today)
      [] op.name = "close_job" /\ name = "Repairs" ->
            LET idx == Min(IdxOf(mem.Repairs, op.repair_id)) IN
            [Repairs EXCEPT ![idx] =
                close_row(@, op.service_cost, op.parts_cost, op.total_cost, today)]
      [] op.name = "close_job" /\ name = "Ledger" ->
            LET row == mem.Repairs[Min(IdxOf(mem.Repairs, op.repair_id))] IN
            add_ledger_entry(Ledger, row.client_name,
                             repair_desc(op.repair_id, row.inverter_model),
                             op.total_cost, 0, today)
      [] op.name = "close_job" /\ name = "Inventory" ->
            deduct_stock(Inventory, op.parts_list)
      [] op.name = "record_invoice" /\ name = "Sales" ->
            Sales \o invoice_rows(get_next_id(Sales), op.invoice_id,
                                      op.customer_name, op.items_df)
      [] op.name = "record_invoice" /\ name = "Inventory" ->
            invoice_inventory(Inventory, op.items_df)
      [] op.name = "record_invoice" /\ name = "Ledger" ->
            add_ledger_entry(Ledger, op.customer_name,
                             invoice_desc(op.invoice_id, op.freight, op.misc),
                             op.grand_total, 0, today)

\* the DataFrame the operation hands to _write_data for a worksheet
frame(op, name, mem) ==
    CASE op.name = "add_ledger_entry" ->
            add_ledger_entry(mem.Ledger, op.party_name, op.description, op.debit,
                             op.credit, today)
      [] op.name = "close_job" /\ name = "Repairs" ->
            LET idx == Min(IdxOf(mem.Repairs, op.repair_id)) IN
            [mem.Repairs EXCEPT ![idx] =
                close_row(@, op.service_cost, op.parts_cost, op.total_cost, today)]
      [] op.name = "close_job" /\ name = "Ledger" ->
            LET row == mem.Repairs[Min(IdxOf(mem.Repairs, op.repair_id))] IN
            add_ledger_entry(mem.Ledger, row.client_name,
                             repair_desc(op.repair_id, row.inverter_model),
                             op.total_cost, 0, today)
      [] op.name = "close_job" /\ name = "Inventory" ->
            deduct_stock(mem.Inventory, op.parts_list)
      [] op.name = "record_invoice" /\ name = "Sales" ->
            mem.Sales \o invoice_rows(get_next_id(mem.Sales), op.invoice_id,
                                      op.customer_name, op.items_df)
      [] op.name = "record_invoice" /\ name = "Inventory" ->
            invoice_inventory(mem.Inventory, op.items_df)
      [] op.name = "record_invoice" /\ name = "Ledger" ->
            add_ledger_entry(mem.Ledger, op.customer_name,
                             invoice_desc(op.invoice_id, op.freight, op.misc),
                             op.grand_total, 0, today)

\* the early returns of close_job after it has read Repairs
returns_early(op, name, mem) ==
    /\ op.name = "close_job" /\ name = "Repairs"
    /\ (mem.Repairs = <<>> \/ IdxOf(mem.Repairs, op.repair_id) = {})

\* the conditions under which an operation makes a write at all
writes(op, name, mem) ==
    CASE op.name = "close_job" /\ name = "Inventory" -> mem.Inventory # <<>>
      [] op.name = "record_invoice" /\ name = "Sales" -> op.items_df # <<>>
      [] op.name = "record_invoice" /\ name = "Inventory" ->
            /\ mem.Inventory # <<>>
            /\ \E k \in 1..Len(op.items_df), i \in 1..Len(mem.Inventory) :
                  lower(mem.Inventory[i].item_name)
                     = lower(strip(op.items_df[k].Item_Name))
      [] OTHER -> TRUE

\* the session goes on with the calls that are left, or returns
proceed(rec, rest, mem) ==
    IF rest = <<>> THEN Idle("returned")
    ELSE [rec EXCEPT !.plan = rest, !.attempt = 0, !.mem = mem]

begin(s, op) ==
    /\ ncalls < MaxCalls
    /\ io[s].pc = "idle"
    /\ io' = [io EXCEPT ![s] = [pc |-> "run", op |-> op, plan |-> plan(op),
                                attempt |-> 0, mem |-> NoMem, out |-> "none"]]
    /\ ncalls' = ncalls + 1
    /\ UNCHANGED <<Repairs, Ledger, Inventory, Sales, Customers, today, ret>>

\* one pass of the loop of _read_data: a rate-limit error is retried, any
\* error that ends the loop gives an empty DataFrame
read_data(s, response) ==
    LET rec == io[s]
        name == Head(rec.plan)[2]
        got(df) == [rec.mem EXCEPT ![name] = df]
        after(df) == IF returns_early(rec.op, name, got(df)) THEN Idle("returned")
                     ELSE proceed(rec, Tail(rec.plan), got(df))
    IN  /\ rec.pc = "run"
        /\ Head(rec.plan)[1] = "read"
        /\ io' = [io EXCEPT ![s] =
              CASE response = "ok" -> after(sheet(name))
                [] response = "429" ->
                      IF rec.attempt < max_read_retries - 1
                         THEN [rec EXCEPT !.attempt = @ + 1]
                         ELSE after(<<>>)
                [] response = "error" -> after(<<>>)]
        /\ UNCHANGED <<Repairs, Ledger, Inventory, Sales, Customers, today, ret, ncalls>>

\* a rate-limit error is retried without end
write_outcome_retry_forever(attempt, response) ==
    CASE response = "ok" -> "written"
      [] response = "429" -> "retry"
      [] response = "WorksheetNotFound" -> "written"
      [] response = "create failed" -> "dropped"
      [] response = "error" -> "raised"

\* what one pass of the loop of _write_data comes to
write_outcome(attempt, response) ==
    CASE response = "ok" -> "written"
      [] response = "429" ->
            IF attempt < max_write_retries - 1 THEN "retry" ELSE "raised"
      [] response = "WorksheetNotFound" -> "written"
      [] response = "create failed" -> "dropped"
      [] response = "error" -> "raised"

\* one pass of the loop of _write_data ("WorksheetNotFound": conn.update fails
\* and conn.create succeeds; "create failed": both fail), or the write that
\* the operation does not make
write_data(s, response) ==
    LET rec == io[s]
        name == Head(rec.plan)[2]
        df == frame(rec.op, name, rec.mem)
        outcome == IF writes(rec.op, name, rec.mem)
                      THEN write_outcome(rec.attempt, response)
                      ELSE "skipped"
        stored(n, old) == IF n = name /\ outcome = "written" THEN df ELSE old
    IN  /\ rec.pc = "run"
        /\ Head(rec.plan)[1] = "write"
        /\ (outcome = "skipped" => response = "ok")
        /\ io' = [io EXCEPT ![s] =
              CASE outcome \in {"written", "dropped", "skipped"} ->
                      proceed(rec, Tail(rec.plan), rec.mem)
                [] outcome = "retry" -> [rec EXCEPT !.attempt = @ + 1]
                [] outcome = "raised" -> Idle("raised")]
        /\ Repairs' = stored("Repairs", Repairs)
        /\ Ledger' = stored("Ledger", Ledger)
        /\ Inventory' = stored("Inventory", Inventory)
        /\ Sales' = stored("Sales", Sales)
        /\ UNCHANGED <<Customers, today, ret, ncalls>>

\* ---------------------------------------------------------------- the shop at work
\* A shop that already has two pending jobs, one stocked part and one ledger
\* entry, as add_repair, add_inventory_item and add_ledger_entry leave them.
pending_job(id) ==
    [id |-> id, client_name |-> "Ali", inverter_model |-> "X100", status |-> "Pending",
     service_cost |-> 0, parts_cost |-> 0, total_cost |-> 0, due_date |-> NaN,
     completion_date |-> NaN, is_late |-> 0]

InitShop ==
    /\ Repairs = <<pending_job(1), pending_job(2)>>
    /\ Ledger = <<ledger_row(<<>>, "Ali", <<"Misc Wiring">>, 200, 0, FirstDay)>>
    /\ Inventory = <<[id |-> 1, item_name |-> "Kit", quantity |-> 5,
                       cost_price |-> 50, selling_price |-> 50]>>
    /\ Sales = <<>>
    /\ Customers = <<>>
    /\ today = FirstDay
    /\ ret = None
    /\ ncalls = 0
    /\ io = [s \in Sessions |-> Idle("none")]

\* one session, a backend that may fail any call
StoreOps ==
    { OpAddLedgerEntry("Ali", <<"Kit payment">>, 0, 3000),
      OpCloseJob(1, 500, 200, 700, <<Part(1, 2)>>),
      OpRecordInvoice(<<"INV", 2024, <<0, 0, 1>>>>, "Ali",
                      <<Line(0, "KIT", 1, 100, 0, 100)>>, 0, 0, 100) }

StoreBegin == ncalls < MaxOps /\ \E op \in StoreOps : begin("A", op)
StoreRead  == \E response \in ReadResponses : read_data("A", response)
StoreWrite == \E response \in WriteResponses : write_data("A", response)

NextStore ==
    \/ StoreBegin
    \/ StoreRead
    \/ StoreWrite

SpecStore == InitShop /\ [][NextStore]_vars

\* the loops of _read_data and _write_data go on: a sleep, then the next try
SpecStoreLive == SpecStore /\ WF_vars(StoreRead) /\ WF_vars(StoreWrite)

\* two sessions closing jobs, a backend that answers every call
RaceBegin ==
    \E s \in Sessions, id \in JobIds :
        begin(s, OpCloseJob(id, 500, 200, 700, <<Part(1, 2)>>))
RaceRead  == \E s \in Sessions : read_data(s, "ok")
RaceWrite == \E s \in Sessions : write_data(s, "ok")

NextRace ==
    \/ RaceBegin
    \/ RaceRead
    \/ RaceWrite

SpecRace == InitShop /\ [][NextRace]_vars

\* ================================================================ claims
RowOf(df, x) == df[Min(IdxOf(df, x))]
Last(sq) == sq[Len(sq)]
JobDebits(x) ==
    {i \in 1..Len(Ledger) :
        /\ Ledger[i].description[1] = "Repair Job #"
        /\ Ledger[i].description[2] = x}

\* C1: once a repair job's status is Delivered, no later update_repair_job
\* or close_job call sets it to anything other than Delivered.
C1_DeliveredIsTerminal ==
    [][\A i \in 1..Len(Repairs) :
          Repairs[i].status = "Delivered" => Repairs'[i].status = "Delivered"]_vars

\* C2: the Ledger holds at most one 'Repair Job #<id>' debit entry per job
\* id, whatever sequence of close_job and update_repair_job calls was made.
C2_OneDebitPerJob ==
    \A x \in JobIds : Cardinality(JobDebits(x)) <= 1

\* C3: after a job has become Delivered, its is_late and completion_date
\* are never changed by any later operation.
C3_LatenessFrozen ==
    [][\A i \in 1..Len(Repairs) :
          Repairs[i].status = "Delivered" =>
             /\ Repairs'[i].is_late = Repairs[i].is_late
             /\ Repairs'[i].completion_date = Repairs[i].completion_date]_vars

\* C4: in every reachable state every row of Repairs satisfies
\* total_cost = service_cost + parts_cost.
C4_TotalIsSum ==
    \A i \in 1..Len(Repairs) :
        Repairs[i].total_cost = Repairs[i].service_cost + Repairs[i].parts_cost

\* C5: close_job sets is_late = 1 exactly when the due date is present, is a
\* calendar day and lies strictly before today; otherwise is_late = 0.
DayNumber(y, m, d) == y * 10000 + m * 100 + d
IsCalendarDay(s) ==
    /\ Len(s) = 3
    /\ s[2] >= 1 /\ s[2] <= 12
    /\ s[3] >= 1 /\ s[3] <= DaysInMonth(s[1], s[2])
Overdue(due, now) ==
    /\ due # NaN
    /\ IsCalendarDay(due)
    /\ DayNumber(due[1], due[2], due[3]) < DayNumber(now.year, now.month, now.day)

C5_LateIffOverdue ==
    [][\A x \in JobIds, sc \in ServiceCosts, pc \in PartsCosts, tc \in TotalCosts,
          pl \in PartsLists :
          (close_job(x, sc, pc, tc, pl) /\ IdxOf(Repairs, x) # {}) =>
             (RowOf(Repairs', x).is_late = 1 <=> Overdue(RowOf(Repairs, x).due_date, today))
             /\ RowOf(Repairs', x).is_late \in {0, 1}]_vars

C5_Witness ==
    \E i \in 1..Len(Repairs) :
        /\ Repairs[i].status = "Delivered"
        /\ Repairs[i].is_late = 1
        /\ Repairs[i].due_date = <<2024, 1, 31>>
        /\ Repairs[i].completion_date = <<2024, 2, 1>>

\* C6: close_job on an existing job sets status Delivered and
\* completion_date today and appends exactly one Ledger entry: party the
\* job's client_name, debit total_cost, credit 0, description naming the job
\* id and the device model; with an empty parts list Inventory is unchanged.
C6_CloseJobEffect ==
    [][\A x \in JobIds, sc \in ServiceCosts, pc \in PartsCosts, tc \in TotalCosts,
          pl \in PartsLists :
          (close_job(x, sc, pc, tc, pl) /\ IdxOf(Repairs, x) # {}) =>
             /\ RowOf(Repairs', x).status = "Delivered"
             /\ strptime(RowOf(Repairs', x).completion_date) = today
             /\ Len(Ledger') = Len(Ledger) + 1
             /\ SubSeq(Ledger', 1, Len(Ledger)) = Ledger
             /\ Last(Ledger').party_name = RowOf(Repairs, x).client_name
             /\ Last(Ledger').debit = RowOf(Repairs', x).total_cost
             /\ Last(Ledger').debit = tc
             /\ Last(Ledger').credit = 0
             /\ Last(Ledger').description[2] = x
             /\ Last(Ledger').description[4] = RowOf(Repairs, x).inverter_model
             /\ (pl = <<>> => Inventory' = Inventory)]_vars

C6_Witness ==
    /\ Len(Repairs) = 1 /\ Repairs[1].status = "Delivered"
    /\ Repairs[1].total_cost = 700
    /\ Len(Ledger) = 1 /\ Ledger[1].debit = 700 /\ Ledger[1].party_name = "Ali"
    /\ Len(Inventory) = 1 /\ Inventory[1].quantity = 3

\* C7: update_repair_job with new_status = "Delivered" makes exactly the
\* steps close_job makes with the same arguments (same Repairs, Ledger and
\* Inventory), so it never writes status Delivered without posting the
\* ledger debit, computing lateness and deducting the stock.
C7_DeliveredGoesThroughClose ==
    [][\A x \in JobIds, sc \in ServiceCosts, pc \in PartsCosts, tc \in TotalCosts,
          pl \in PartsLists :
          LET delivered == update_repair_job(x, sc, pc, tc, pl, "Delivered") IN
          /\ delivered <=> close_job(x, sc, pc, tc, pl)
          /\ (delivered /\ IdxOf(Repairs, x) # {}) =>
                /\ RowOf(Repairs', x).status = "Delivered"
                /\ Len(Ledger') = Len(Ledger) + 1
                /\ Last(Ledger').description = repair_desc(x, RowOf(Repairs, x).inverter_model)
                /\ Last(Ledger').debit = tc
                /\ RowOf(Repairs', x).is_late = late_flag(RowOf(Repairs, x).due_date, today)
                /\ RowOf(Repairs', x).completion_date = str_date(today)
                /\ Inventory' = deduct_stock(Inventory, pl)]_vars

C7_Witness ==
    /\ ncalls = 3
    /\ Len(Repairs) = 1 /\ Repairs[1].status = "Delivered"
    /\ JobDebits(1) = {1}
    /\ Len(Inventory) = 1 /\ Inventory[1].item_name = "Fan Belt"
    /\ Inventory[1].quantity = 0

\* C8: every inventory item's quantity is >= 0 in every reachable state.
C8_StockNeverNegative ==
    \A i \in 1..Len(Inventory) : Inventory[i].quantity >= 0

\* C9: for every item consumed by close_job the resulting quantity is
\* max(0, quantity - consumed), the consumed quantity being summed over all
\* occurrences of the item in the parts list; other items are unchanged.
RECURSIVE Consumed(_, _)
Consumed(parts_list, x) ==
    IF parts_list = <<>> THEN 0
    ELSE (IF Head(parts_list).id = x THEN Head(parts_list).qty ELSE 0)
         + Consumed(Tail(parts_list), x)
Listed(parts_list, x) == \E k \in 1..Len(parts_list) : parts_list[k].id = x

C9_ClampedDeduction ==
    [][\A x \in JobIds, sc \in ServiceCosts, pc \in PartsCosts, tc \in TotalCosts,
          pl \in PartsLists :
          (close_job(x, sc, pc, tc, pl) /\ IdxOf(Repairs, x) # {}) =>
             /\ Len(Inventory') = Len(Inventory)
             /\ \A i \in 1..Len(Inventory) :
                   /\ Inventory'[i].quantity =
                         IF Listed(pl, Inventory[i].id)
                            THEN Max(0, Inventory[i].quantity - Consumed(pl, Inventory[i].id))
                            ELSE Inventory[i].quantity
                   /\ Listed(pl, Inventory[i].id) => Inventory'[i].quantity >= 0]_vars

C9_Witness ==
    /\ ncalls = 3
    /\ Len(Repairs) = 1 /\ Repairs[1].status = "Delivered"
    /\ Len(Ledger) = 1
    /\ Len(Inventory) = 1 /\ Inventory[1].item_name = "Kit"
    /\ Inventory[1].quantity = 0

\* C10: sell_item asking for more than the item's quantity returns
\* (False, "Insufficient stock"), and sell_item on an unknown item id returns
\* a failure; in both cases Inventory and Sales are unchanged.
C10_FailedSaleChangesNothing ==
    [][\A x \in ItemIds, q \in SellQtys :
          sell_item(x, q) =>
             /\ (IdxOf(Inventory, x) # {} /\ q > RowOf(Inventory, x).quantity) =>
                   /\ ret' = <<FALSE, "Insufficient stock">>
                   /\ Inventory' = Inventory
                   /\ Sales' = Sales
             /\ IdxOf(Inventory, x) = {} =>
                   /\ ret'[1] = FALSE
                   /\ Inventory' = Inventory
                   /\ Sales' = Sales]_vars

C10_Witness ==
    /\ ret = <<FALSE, "Insufficient stock">>
    /\ Len(Inventory) = 1 /\ Inventory[1].quantity = 3
    /\ Sales = <<>>

\* C11: update_repair_job with a status other than Delivered leaves every
\* inventory quantity unchanged, also with a non-empty parts list and when
\* it is repeated.
C11_SaveLeavesStock ==
    [][\A x \in JobIds, sc \in ServiceCosts, pc \in PartsCosts, tc \in TotalCosts,
          pl \in PartsLists :
          update_repair_job(x, sc, pc, tc, pl, "In Progress") =>
             Inventory' = Inventory]_vars

\* ---------------------------------------------------------------- invoices
\* the ids an invoice can be recorded under in the current state
UsableInvoiceIds == SaleInvoiceIds \cup {get_next_invoice_number(Sales, today)}

\* C12: each record_invoice call appends exactly one Ledger entry, for the
\* invoice's customer, with debit = grand_total and credit = 0, whatever the
\* number of line items; earlier entries stay, so two calls with the same
\* invoice post two debits.
C12_OneDebitPerInvoice ==
    [][\A inv \in UsableInvoiceIds, c \in ClientNames, items \in ItemsDfs,
          f \in Freights, g \in GrandTotals :
          record_invoice(inv, c, items, f, 0, g) =>
             /\ Len(Ledger') = Len(Ledger) + 1
             /\ SubSeq(Ledger', 1, Len(Ledger)) = Ledger
             /\ Last(Ledger').party_name = c
             /\ Last(Ledger').debit = g
             /\ Last(Ledger').credit = 0
             /\ Last(Ledger').description[2] = inv]_vars

C12_Witness ==
    /\ Len(Ledger) = 2
    /\ Ledger[1].description[2] = Ledger[2].description[2]
    /\ Ledger[1].debit = 1100 /\ Ledger[2].debit = 1100
    /\ Ledger[1].credit = 0 /\ Ledger[2].credit = 0
    /\ Len(Sales) = 3
    /\ \A i \in 1..3 : Sales[i].invoice_id = Ledger[1].description[2]

\* the net quantity (sold minus returned) of the lines at the positions K
RECURSIVE NetOf(_, _)
NetOf(items, K) ==
    IF K = {} THEN 0
    ELSE LET k == Min(K) IN
         items[k].Qty - items[k].Return_Qty + NetOf(items, K \ {k})

SameNameIgnoringCase(a, b) == lower(a) = lower(b)

\* C13 as stated: for each invoice line, record_invoice changes the quantity
\* of the inventory item whose name equals the line's item name
\* case-insensitively by -(qty - return_qty), changes nothing when no name
\* matches, and leaves all other items unchanged.
C13_NameMatchNetChange ==
    [][\A inv \in UsableInvoiceIds, c \in ClientNames, items \in ItemsDfs,
          f \in Freights, g \in GrandTotals :
          record_invoice(inv, c, items, f, 0, g) =>
             /\ Len(Inventory') = Len(Inventory)
             /\ \A i \in 1..Len(Inventory) :
                   Inventory'[i].quantity = Inventory[i].quantity -
                      NetOf(items, {k \in 1..Len(items) :
                          SameNameIgnoringCase(items[k].Item_Name,
                                               Inventory[i].item_name)})]_vars

\* the position of the first inventory item whose name equals, ignoring case,
\* the line's name without its surrounding blanks; 0 when there is none
FirstWithName(inv_df, name) ==
    LET hits == {i \in 1..Len(inv_df) :
                    SameNameIgnoringCase(strip(name), inv_df[i].item_name)}
    IN  IF hits = {} THEN 0 ELSE Min(hits)

\* C13, amended: for each invoice line, record_invoice changes the quantity
\* of the first inventory item whose name equals, ignoring case, the line's
\* item name stripped of surrounding blanks by -(qty - return_qty); it changes
\* nothing when no name matches, and all other items (later items of the same
\* name included) are unchanged.
C13_FirstStrippedNameMatch ==
    [][\A inv \in UsableInvoiceIds, c \in ClientNames, items \in ItemsDfs,
          f \in Freights, g \in GrandTotals :
          record_invoice(inv, c, items, f, 0, g) =>
             /\ Len(Inventory') = Len(Inventory)
             /\ \A i \in 1..Len(Inventory) :
                   /\ Inventory'[i].quantity = Inventory[i].quantity -
                         NetOf(items, {k \in 1..Len(items) :
                             FirstWithName(Inventory, items[k].Item_Name) = i})
                   /\ Inventory'[i].item_name = Inventory[i].item_name
                   /\ Inventory'[i].id = Inventory[i].id]_vars

C13_Witness ==
    /\ Len(Inventory) = 2
    /\ Inventory[1].item_name = "Kit" /\ Inventory[1].quantity = 4
    /\ Inventory[2].item_name = "Kit" /\ Inventory[2].quantity = 3
    /\ Len(Sales) = 2
    /\ Sales[1].item_name = "KIT" /\ Sales[1].return_quantity = 1
    /\ Sales[2].item_name = "Bolt"

\* C14: after record_invoice under an id not used before,
\* get_invoice_items(id) returns exactly one sales row per recorded line, in
\* order, with the line's item name, quantity, rate, return quantity and
\* total; rows of other invoices are not returned for id, and what the other
\* ids return is unchanged.
C14_InvoiceRoundTrip ==
    [][\A inv \in UsableInvoiceIds, c \in ClientNames, items \in ItemsDfs,
          f \in Freights, g \in GrandTotals :
          (record_invoice(inv, c, items, f, 0, g) /\ inv \notin invoice_ids(Sales)) =>
             LET got == get_invoice_items(Sales', inv) IN
             /\ Len(got) = Len(items)
             /\ \A k \in 1..Len(got) :
                   /\ got[k].invoice_id = inv
                   /\ got[k].customer_name = c
                   /\ got[k].item_name = items[k].Item_Name
                   /\ got[k].quantity_sold = items[k].Qty
                   /\ got[k].sale_price = items[k].Rate
                   /\ got[k].return_quantity = items[k].Return_Qty
                   /\ got[k].total_amount = items[k].Total
             /\ \A o \in invoice_ids(Sales) :
                   get_invoice_items(Sales', o) = get_invoice_items(Sales, o)]_vars

C14_Witness ==
    /\ Len(Sales) = 3
    /\ Sales[1].invoice_id = <<"INV", 2024, <<0, 0, 1>>>>
    /\ Sales[2].invoice_id = <<"INV", 2024, <<0, 0, 2>>>>
    /\ get_invoice_items(Sales, <<"INV", 2024, <<0, 0, 1>>>>) = <<Sales[1]>>
    /\ get_invoice_items(Sales, <<"INV", 2024, <<0, 0, 2>>>>) = <<Sales[2], Sales[3]>>
    /\ Sales[3].item_name = "Bolt"

\* the number a suffix of decimal digits denotes
RECURSIVE Pow10(_)
Pow10(n) == IF n = 0 THEN 1 ELSE 10 * Pow10(n - 1)
RECURSIVE SuffixValueFrom(_, _)
SuffixValueFrom(suffix, k) ==
    IF k > Len(suffix) THEN 0
    ELSE suffix[k] * Pow10(Len(suffix) - k) + SuffixValueFrom(suffix, k + 1)
SuffixValue(suffix) == SuffixValueFrom(suffix, 1)
AllDigits(suffix) == suffix # <<>> /\ \A k \in 1..Len(suffix) : suffix[k] \in 0..9
IdsOfYear(y) == {x \in invoice_ids(Sales) : x[1] = "INV" /\ x[2] = y}
NumbersOfYear(y) == {SuffixValue(x[3]) : x \in {z \in IdsOfYear(y) : AllDigits(z[3])}}
\* "INV-<year>-" followed by n, zero-padded to three digits
IsPaddedNumber(r, y, n) ==
    /\ r[1] = "INV" /\ r[2] = y
    /\ AllDigits(r[3])
    /\ SuffixValue(r[3]) = n
    /\ Len(r[3]) >= 3
    /\ (Len(r[3]) > 3 => r[3][1] # 0)

\* C15 as stated: get_next_invoice_number returns "INV-<year>-" followed by
\* (largest numeric suffix among the invoice ids of the current year) + 1,
\* zero-padded to 3 digits, and "INV-<year>-001" when no invoice of the
\* current year exists; ids of other years do not affect the result.
C15_NextAfterLargestNumeric ==
    IsPaddedNumber(get_next_invoice_number(Sales, today), today.year,
                   IF IdsOfYear(today.year) = {} THEN 1
                   ELSE SetMax(NumbersOfYear(today.year) \cup {0}) + 1)

\* C15, amended: when every invoice id of the current year has a numeric
\* suffix the result is "INV-<year>-" followed by (largest suffix) + 1,
\* zero-padded to 3 digits; it is "INV-<year>-001" when no invoice of the
\* current year exists or when some id of the current year has a suffix that
\* is not a number; ids of other years do not affect the result.
C15_NextNumberOrFirst ==
    IsPaddedNumber(get_next_invoice_number(Sales, today), today.year,
                   IF IdsOfYear(today.year) = {} THEN 1
                   ELSE IF \E x \in IdsOfYear(today.year) : ~AllDigits(x[3]) THEN 1
                   ELSE SetMax(NumbersOfYear(today.year)) + 1)

C15_Witness ==
    /\ invoice_ids(Sales) = { <<"INV", 2023, <<0, 0, 9>>>>, <<"INV", 2024, <<0, 0, 7>>>>,
                              <<"INV", 2024, <<0, 0, 8>>>> }
    /\ Last(Sales).invoice_id = <<"INV", 2024, <<0, 0, 8>>>>
    /\ get_next_invoice_number(Sales, today) = <<"INV", 2024, <<0, 0, 9>>>>

\* ---------------------------------------------------------------- ledger
\* the stored entries of a party, in stored order
EntriesOf(party) == SelectSeq(Ledger, LAMBDA r : r.party_name = party)

\* debits minus credits of the first i rows
RECURSIVE NetUpTo(_, _)
NetUpTo(rows, i) ==
    IF i = 0 THEN 0 ELSE NetUpTo(rows, i - 1) + rows[i].debit - rows[i].credit

IsOpeningRow(r) == "id" \notin DOMAIN r /\ r.description = <<"Opening Balance (B/F)">>

FinalBalance(party) ==
    LET view == get_ledger_entries(Ledger, Customers, party) IN
    IF view = <<>> THEN 0 ELSE Last(Balance(view))

\* C17: for every registered customer, after any sequence of add_customer,
\* add_ledger_entry, delete_ledger_entry, close_job and record_invoice, the
\* final running balance of the customer's ledger view equals the
\* net_outstanding that get_customer_balances and get_customer_recovery_list
\* report for that customer.
C17_ViewEqualsReport ==
    \A i \in 1..Len(Customers) :
        LET final == FinalBalance(Customers[i].name)
            recovery == get_customer_recovery_list(Customers, Ledger)
        IN  /\ get_customer_balances(Customers, Ledger)[i].net_outstanding = final
            /\ \A k \in 1..Len(recovery) :
                  recovery[k].customer_id = Customers[i].customer_id =>
                     recovery[k].net_outstanding = final

\* (date, id) of row a comes before (date, id) of row b
DateIdBefore(a, b) ==
    LET da == DayNumber(a.date[1], a.date[2], a.date[3])
        db == DayNumber(b.date[1], b.date[2], b.date[3])
    IN  da < db \/ (da = db /\ a.id < b.id)

\* C18: the entries listed for a party are ordered by (date, id) ascending,
\* also when they were added out of chronological order.
C18_ViewOrderedByDateId ==
    \A party \in CustomerNames :
        LET view == get_ledger_entries(Ledger, Customers, party)
            rows == SelectSeq(view, LAMBDA r : "id" \in DOMAIN r)
        IN  \A i \in 1..Len(rows), j \in 1..Len(rows) :
               i < j => DateIdBefore(rows[i], rows[j])

\* C19: for every customer the reports give net_outstanding =
\* opening_balance + (debits) - (credits) over the ledger entries of that
\* customer (a customer without entries has its opening_balance; entries of
\* other parties do not count), and get_customer_recovery_list returns its
\* rows in descending order of net_outstanding.
C19_NetOutstanding ==
    LET balances == get_customer_balances(Customers, Ledger)
        recovery == get_customer_recovery_list(Customers, Ledger)
    IN  /\ Len(balances) = Len(Customers)
        /\ Len(recovery) = Len(Customers)
        /\ \A i \in 1..Len(Customers) :
              LET entries == EntriesOf(Customers[i].name)
                  expected == Customers[i].opening_balance
                                 + NetUpTo(entries, Len(entries))
              IN  /\ balances[i].net_outstanding = expected
                  /\ \E k \in 1..Len(recovery) :
                        /\ recovery[k].customer_id = Customers[i].customer_id
                        /\ recovery[k].net_outstanding = expected
                  /\ entries = <<>> =>
                        balances[i].net_outstanding = Customers[i].opening_balance
        /\ \A k \in 1..Len(recovery), l \in 1..Len(recovery) :
              k < l => recovery[k].net_outstanding >= recovery[l].net_outstanding

C19_Witness ==
    /\ Len(Customers) = 2
    /\ Customers[1].name = "ali" /\ Customers[1].opening_balance = 0 - 300
    /\ Customers[2].name = "Ali" /\ Customers[2].opening_balance = 5000
    /\ Len(Ledger) = 1 /\ Ledger[1].party_name = "Ali" /\ Ledger[1].credit = 3000
    /\ get_customer_recovery_list(Customers, Ledger)[1].customer_id = <<"C", 2>>
    /\ get_customer_recovery_list(Customers, Ledger)[1].net_outstanding = 2000
    /\ get_customer_recovery_list(Customers, Ledger)[2].net_outstanding = 0 - 300

\* the category keywords a description contains, whatever the case
KeywordsOf(description) ==
    IF Len(description) # 1 THEN {}
    ELSE CASE description[1] = "Sold INVERTER + Charger" -> {"inverter", "charger"}
           [] description[1] = "Solar Kit" -> {"kit"}
           [] description[1] = "Kit payment" -> {"kit"}
           [] OTHER -> {}

DebitsOf(party) == SelectSeq(EntriesOf(party), LAMBDA r : r.debit > 0)

NumberWith(rows, keyword) ==
    Cardinality({i \in 1..Len(rows) : keyword \in KeywordsOf(rows[i].description)})

\* C20: in get_customer_recovery_list each debit transaction of a customer
\* counts once in inverter_count, charger_count and kit_count for each of
\* these keywords its description contains (case-insensitive, not exclusive)
\* and once in other_count exactly when it contains none; credit-only
\* transactions count nowhere; so other_count + (debit transactions with a
\* keyword) = (debit transactions).
C20_KeywordCounters ==
    LET recovery == get_customer_recovery_list(Customers, Ledger) IN
    \A k \in 1..Len(recovery) :
        LET debits == DebitsOf(recovery[k].name)
            matching == {i \in 1..Len(debits) : KeywordsOf(debits[i].description) # {}}
        IN  /\ recovery[k].inverter_count = NumberWith(debits, "inverter")
            /\ recovery[k].charger_count = NumberWith(debits, "charger")
            /\ recovery[k].kit_count = NumberWith(debits, "kit")
            /\ recovery[k].other_count = Len(debits) - Cardinality(matching)
            /\ recovery[k].other_count + Cardinality(matching) = Len(debits)

C20_Witness ==
    /\ Len(Customers) = 1 /\ Customers[1].name = "Ali"
    /\ Len(Ledger) = 2
    /\ Ledger[1].party_name = "Ali"
    /\ Ledger[1].description = <<"Sold INVERTER + Charger">> /\ Ledger[1].debit = 2000
    /\ Ledger[2].party_name = "Ali"
    /\ Ledger[2].description = <<"Kit payment">> /\ Ledger[2].credit = 3000
    /\ get_customer_recovery_list(Customers, Ledger)[1].inverter_count = 1
    /\ get_customer_recovery_list(Customers, Ledger)[1].charger_count = 1
    /\ get_customer_recovery_list(Customers, Ledger)[1].kit_count = 0
    /\ get_customer_recovery_list(Customers, Ledger)[1].other_count = 0

\* ---------------------------------------------------------------- directory
Names(sq) == {sq[i] : i \in 1..Len(sq)}

\* C21: delete_customer removes only the customer's directory row: the
\* Ledger (and Repairs) stay as they are, a deleted customer that has ledger
\* entries is still listed by get_all_ledger_parties, and that list is the
\* union, without repetition, of the ledger party names, the repair client
\* names and the registered customer names.
C21_DeleteKeepsHistory ==
    [][\A id \in CustomerIds :
          delete_customer(id) =>
             LET parties == get_all_ledger_parties(Ledger', Repairs', Customers') IN
             /\ Ledger' = Ledger
             /\ Repairs' = Repairs
             /\ Customers' = SelectSeq(Customers, LAMBDA r : r.customer_id # id)
             /\ \A i \in 1..Len(Customers) :
                   (/\ Customers[i].customer_id = id
                    /\ \E k \in 1..Len(Ledger) : Ledger[k].party_name = Customers[i].name)
                   => Customers[i].name \in Names(parties)
             /\ Names(parties) =
                   {Ledger[k].party_name : k \in 1..Len(Ledger)}
                   \cup {Repairs[k].client_name : k \in 1..Len(Repairs)}
                   \cup {Customers'[k].name : k \in 1..Len(Customers')}
             /\ Cardinality(Names(parties)) = Len(parties)]_vars

C21_Witness ==
    /\ ncalls = 3
    /\ Customers = <<>>
    /\ Repairs = <<>>
    /\ Len(Ledger) = 1 /\ Ledger[1].party_name = "ali"
    /\ get_all_ledger_parties(Ledger, Repairs, Customers) = <<"ali">>

C23_ActiveJobsByDueDate ==
    LET active == get_active_repairs(Repairs) IN
    /\ {active[i].id : i \in 1..Len(active)} =
          {Repairs[i].id : i \in {j \in 1..Len(Repairs) : Repairs[j].status # "Delivered"}}
    /\ Len(active) = Cardinality({j \in 1..Len(Repairs) : Repairs[j].status # "Delivered"})
    /\ \A i \in 1..Len(active), j \in 1..Len(active) :
          (i < j /\ active[i].due_date # NaN /\ active[j].due_date # NaN) =>
             DayNumber(active[i].due_date[1], active[i].due_date[2], active[i].due_date[3])
                <= DayNumber(active[j].due_date[1], active[j].due_date[2],
                             active[j].due_date[3])

\* ---------------------------------------------------------------- invoice totals
\* str.startswith on the digits of an invoice number
startswith(q, p) == Len(p) <= Len(q) /\ SubSeq(q, 1, Len(p)) = p

\* description.str.contains(f"Invoice #{invoice_id}", regex=False): the
\* description holds the text "Invoice #", the prefix and the year of the id,
\* and digits that begin with the digits of the id
contains_invoice(description, invoice_id) ==
    /\ Len(description) >= 2
    /\ description[1] = "Invoice #"
    /\ description[2][1] = invoice_id[1]
    /\ description[2][2] = invoice_id[2]
    /\ startswith(description[2][3], invoice_id[3])

get_invoice_total_from_ledger(ledger, invoice_id) ==
    LET matches == SelectSeq(ledger, LAMBDA r : contains_invoice(r.description, invoice_id))
    IN  IF ledger = <<>> THEN 0
        ELSE IF matches # <<>> THEN matches[Len(matches)].debit
        ELSE 0

\* invoice 100 and invoice 1000 of one year
TotalInvoiceIds == { <<"INV", 2024, <<1, 0, 0>>>>, <<"INV", 2024, <<1, 0, 0, 0>>>> }
TotalAmounts    == {1100, 2500}
TotalFreights   == {0, 100}

PostInvoice ==
    \E inv \in TotalInvoiceIds, g \in TotalAmounts, f \in TotalFreights :
        record_invoice(inv, "Ali", <<Line(0, "Kit", 1, g - f, 0, g - f)>>, f, 0, g)

NextTotals == PostInvoice

SpecTotals == Init /\ [][NextTotals]_vars

\* ---------------------------------------------------------------- store faults
Writing(s) == io[s].pc = "run" /\ Head(io[s].plan)[1] = "write"
Reading(s) == io[s].pc = "run" /\ Head(io[s].plan)[1] = "read"

\* C24: a store write that keeps meeting a rate-limit error is tried at most
\* max_write_retries (5) times and then raises to the caller; a success on any
\* try ends the retries; and every operation that was started comes to an end,
\* so that no write is retried forever.
C24_WriteRetriesBounded ==
    /\ [](Writing("A") => io["A"].attempt < max_write_retries)
    /\ [][ /\ (write_data("A", "429") /\ io["A"].attempt = max_write_retries - 1)
              => /\ io'["A"] = Idle("raised")
                 /\ UNCHANGED <<Repairs, Ledger, Inventory, Sales>>
           /\ (write_data("A", "429") /\ io["A"].attempt < max_write_retries - 1)
              => /\ io'["A"] = [io["A"] EXCEPT !.attempt = @ + 1]
                 /\ UNCHANGED <<Repairs, Ledger, Inventory, Sales>>
           /\ write_data("A", "ok")
              => /\ io'["A"].attempt = 0
                 /\ io'["A"].pc = "run" => io'["A"].plan = Tail(io["A"].plan)
                 /\ io'["A"].out # "raised" ]_vars
    /\ (io["A"].pc = "run") ~> (io["A"].pc = "idle")

\* four rate-limit errors have been met and the fifth try is about to be made
C24_Witness == Writing("A") /\ io["A"].attempt = max_write_retries - 1

\* C25: a backend failure that is not a rate-limit error ends the operation
\* at once by raising to the caller, for reads and for writes alike: it is not
\* retried and the operation does not go on as if the call had succeeded.
C25_FailuresPropagate ==
    [][ /\ read_data("A", "error") => io'["A"] = Idle("raised")
        /\ \A response \in {"error", "create failed"} :
              write_data("A", response) => io'["A"] = Idle("raised") ]_vars

\* ---------------------------------------------------------------- concurrent sessions
Delivered(id) == \E i \in 1..Len(Repairs) : Repairs[i].id = id /\ Repairs[i].status = "Delivered"

\* two close_job calls, on jobs 1 and 2, have been made and both have returned
BothClosed ==
    /\ ncalls = 2
    /\ \A s \in Sessions : io[s].pc = "idle"
    /\ Delivered(1) /\ Delivered(2)

StaleInventoryWrite(s) ==
    /\ Writing(s)
    /\ Head(io[s].plan)[2] = "Inventory"
    /\ io[s].mem.Inventory # Inventory

\* C26: close_job reads Inventory and writes it back without isolation: a
\* session whose Inventory frame is stale writes the stock computed from what it
\* read, which undoes the deduction made in between; so after two close_job
\* calls on different jobs that each use 2 of the 5 kits the stock is 1 (both
\* deductions) or 3 (one of them lost).
C26_LostUpdate ==
    /\ [](BothClosed => Inventory[1].quantity \in {5 - 2 - 2, 5 - 2})
    /\ [][\A s \in Sessions :
            (StaleInventoryWrite(s) /\ write_data(s, "ok"))
               => Inventory' = deduct_stock(io[s].mem.Inventory, io[s].op.parts_list)]_vars

\* both jobs are Delivered and only one of the two deductions is in the stock
C26_Witness == BothClosed /\ Inventory[1].quantity = 5 - 2

\* ---------------------------------------------------------------- partial failure
WritesLeft(p) == SelectSeq(p, LAMBDA call : call[1] = "write")

WriteOrder(name) ==
    CASE name = "close_job" ->
            << <<"write", "Repairs">>, <<"write", "Ledger">>, <<"write", "Inventory">> >>
      [] name = "record_invoice" ->
            << <<"write", "Sales">>, <<"write", "Inventory">>, <<"write", "Ledger">> >>
      [] name = "add_ledger_entry" ->
            << <<"write", "Ledger">> >>

IsSuffix(t, q) == Len(t) <= Len(q) /\ t = SubSeq(q, Len(q) - Len(t) + 1, Len(q))

SheetNames == {"Repairs", "Ledger", "Inventory", "Sales"}

\* C27: close_job writes Repairs, then Ledger, then Inventory, and
\* record_invoice writes Sales, then Inventory, then Ledger; a write changes
\* its own worksheet only, and a write that raises ends the operation with
\* every worksheet left as the earlier writes made it: nothing is rolled back.
C27_FixedOrderNoRollback ==
    /\ [](io["A"].pc = "run"
            => IsSuffix(WritesLeft(io["A"].plan), WriteOrder(io["A"].op.name)))
    /\ [][ /\ \A op \in StoreOps :
                 begin("A", op) => WritesLeft(io'["A"].plan) = WriteOrder(op.name)
           /\ \A response \in WriteResponses :
                 write_data("A", response)
                    => /\ \A n \in SheetNames \ {Head(io["A"].plan)[2]} :
                             sheet(n)' = sheet(n)
                       /\ io'["A"].out = "raised"
                             => /\ io'["A"].pc = "idle"
                                /\ UNCHANGED <<Repairs, Ledger, Inventory, Sales>>
                       /\ io'["A"].pc = "run"
                             => io'["A"].plan \in {io["A"].plan, Tail(io["A"].plan)} ]_vars

\* close_job has raised at its ledger write: job 1 is Delivered and the ledger
\* has no debit for it
C27_Witness ==
    /\ io["A"].out = "raised"
    /\ Delivered(1)
    /\ \A i \in 1..Len(Ledger) : Ledger[i].description # repair_desc(1, "X100")
    /\ Inventory[1].quantity = 5

\* C28: add_ledger_entry never loses stored rows: when its write succeeds the
\* Ledger holds every row it held before the call and the new row after them,
\* also when the read inside the operation met a backend error.
C28_AddKeepsRows ==
    [][ (write_data("A", "ok") /\ io["A"].op.name = "add_ledger_entry")
           => /\ Len(Ledger') = Len(Ledger) + 1
              /\ SubSeq(Ledger', 1, Len(Ledger)) = Ledger ]_vars

\* ---------------------------------------------------------------- invoice identity
\* C29: an invoice recorded under the number that get_next_invoice_number has
\* just returned never takes an invoice_id that Sales already holds, whatever
\* ids are stored, those with a non-numeric suffix included.
C29_FetchedNumberIsFresh ==
    [][RecordNextInvoice
          => get_next_invoice_number(Sales, today) \notin invoice_ids(Sales)]_vars

\* the debit of the last ledger entry posted for exactly this invoice id
PostedTotal(invoice_id) ==
    LET rows == {i \in 1..Len(Ledger) :
                    /\ Len(Ledger[i].description) >= 2
                    /\ Ledger[i].description[1] = "Invoice #"
                    /\ Ledger[i].description[2] = invoice_id}
    IN  IF rows = {} THEN 0 ELSE Ledger[SetMax(rows)].debit

\* C30: get_invoice_total_from_ledger(id) is the grand_total that
\* record_invoice posted last for that same id, and 0 when it posted none,
\* whatever other invoices the ledger holds, those whose id begins with id
\* included.
C30_TotalOfSameInvoice ==
    \A inv \in TotalInvoiceIds :
        get_invoice_total_from_ledger(Ledger, inv) = PostedTotal(inv)

====
